---------------------------- MODULE Spec2Model ----------------------------
(***************************************************************************)
(* A model of main.py: module start-up (environment, provider client),     *)
(* generate_response, the three prompt patterns built on it                *)
(* (few_shot_prompt, structured_json_response,                             *)
(* retrieval_augmented_generation) and function_call.                      *)
(*                                                                         *)
(* Text is modelled character by character: a Python str is a sequence of  *)
(* one-character strings, so that str.strip, the two re.sub calls and      *)
(* json.loads are computed on characters as the code computes them.        *)
(***************************************************************************)
EXTENDS Integers, Sequences, FiniteSets, TLC

(***************************************************************************)
(* Bounds of the model.                                                    *)
(***************************************************************************)
\* the provider's reply is a concatenation of at most MaxPieces pieces
MaxPieces == 3
\* at most MaxExamples examples are handed to few_shot_prompt
MaxExamples == 2
\* at most MaxCalls provider requests are issued in one run
MaxCalls == 2
\* operands of function_call range over -MaxOperand..MaxOperand
MaxOperand == 2

(***************************************************************************)
(* Characters and literals.                                                *)
(***************************************************************************)
\* the backtick (grave accent), which a TLA+ string cannot hold
BT == "GRAVE"
QUOTE == "\""
Fence == <<BT, BT, BT>>
TagJson == <<"j", "s", "o", "n">>

\* characters str.strip() removes and \s matches (those the alphabet can hold)
PyWhitespace == {" ", "\t", "\n", "\r", "\f"}
\* characters json.loads skips between tokens
JsonWhitespace == {" ", "\t", "\n", "\r"}
\* characters json.loads refuses inside a string literal
ControlChars == {"\t", "\n", "\r", "\f"}
Digits == {"0", "1", "2", "3", "4", "5", "6", "7", "8", "9"}

Min(S) == CHOOSE x \in S : \A y \in S : x <= y
Max(S) == CHOOSE x \in S : \A y \in S : x >= y

RECURSIVE Concat(_)
\* "".join(parts)
Concat(parts) ==
    IF parts = <<>> THEN <<>> ELSE Head(parts) \o Concat(Tail(parts))

StartsWith(s, p) == Len(p) <= Len(s) /\ SubSeq(s, 1, Len(p)) = p
EndsWith(s, p) == Len(p) <= Len(s) /\ SubSeq(s, Len(s) - Len(p) + 1, Len(s)) = p
MatchAt(s, i, lit) == i + Len(lit) - 1 <= Len(s) /\ SubSeq(s, i, i + Len(lit) - 1) = lit

(***************************************************************************)
(* str.strip(): drop leading and trailing whitespace.                      *)
(***************************************************************************)
Strip(s) ==
    LET keep == {k \in 1..Len(s) : s[k] \notin PyWhitespace}
    IN  IF keep = {} THEN <<>> ELSE SubSeq(s, Min(keep), Max(keep))

(***************************************************************************)
(* re.sub(r"^FFF(?:json)?\s*", "", clean), FFF being the three backticks:  *)
(* the pattern is anchored at the start, the tag is the four lower-case    *)
(* letters, and \s* is greedy.                                             *)
(***************************************************************************)
LeadingFenceEnd(s) ==
    IF ~StartsWith(s, Fence) THEN 0
    ELSE LET t == IF MatchAt(s, 4, TagJson) THEN 7 ELSE 3
             rest == {k \in (t + 1)..Len(s) : s[k] \notin PyWhitespace}
         IN  IF rest = {} THEN Len(s) ELSE Min(rest) - 1

\* the pattern without its optional tag: r"^FFF\s*"
RemoveLeadingFenceUntagged(s) ==
    IF ~StartsWith(s, Fence) THEN s
    ELSE LET rest == {k \in 4..Len(s) : s[k] \notin PyWhitespace}
         IN  IF rest = {} THEN <<>> ELSE SubSeq(s, Min(rest), Len(s))

\* the pattern without its trailing \s*: r"^FFF(?:json)?"
RemoveLeadingFenceKeepSpace(s) ==
    IF ~StartsWith(s, Fence) THEN s
    ELSE SubSeq(s, (IF MatchAt(s, 4, TagJson) THEN 8 ELSE 4), Len(s))

\* the pattern compiled with re.IGNORECASE
RemoveLeadingFenceIgnoreCase(s) ==
    IF ~StartsWith(s, Fence) THEN s
    ELSE LET tagged == Len(s) >= 7
                       /\ [k \in 1..4 |->
                             IF s[k + 3] \in {"J", "S", "O", "N"}
                             THEN (CASE s[k + 3] = "J" -> "j" [] s[k + 3] = "S" -> "s"
                                     [] s[k + 3] = "O" -> "o" [] s[k + 3] = "N" -> "n")
                             ELSE s[k + 3]] = TagJson
             t == IF tagged THEN 7 ELSE 3
             rest == {k \in (t + 1)..Len(s) : s[k] \notin PyWhitespace}
         IN  IF rest = {} THEN <<>> ELSE SubSeq(s, Min(rest), Len(s))

RemoveLeadingFence(s) == SubSeq(s, LeadingFenceEnd(s) + 1, Len(s))

(***************************************************************************)
(* re.sub(r"\s*FFF$", "", clean): $ matches at the end of the string and   *)
(* just before a newline that ends it; the leftmost match takes the whole  *)
(* run of whitespace before the closing fence.                             *)
(***************************************************************************)
TrailingFenceAt(s) ==
    LET e == IF EndsWith(s, Fence) THEN Len(s)
             ELSE IF EndsWith(s, Fence \o <<"\n">>) THEN Len(s) - 1
             ELSE 0
    IN  IF e = 0 THEN [from |-> 0, to |-> 0]
        ELSE LET before == {k \in 1..(e - 3) : s[k] \notin PyWhitespace}
             IN  [from |-> (IF before = {} THEN 1 ELSE Max(before) + 1), to |-> e]

RECURSIVE RemoveEveryFence(_)
\* the pattern without its anchor: r"\s*FFF", which matches anywhere
RemoveEveryFence(s) ==
    LET at == {k \in 1..(Len(s) - 2) : MatchAt(s, k, Fence)}
    IN  IF at = {} THEN s
        ELSE LET k == Min(at)
                 before == {m \in 1..(k - 1) : s[m] \notin PyWhitespace}
                 from == IF before = {} THEN 1 ELSE Max(before) + 1
             IN  SubSeq(s, 1, from - 1) \o RemoveEveryFence(SubSeq(s, k + 3, Len(s)))

RemoveTrailingFence(s) ==
    LET m == TrailingFenceAt(s)
    IN  IF m.to = 0 THEN s
        ELSE SubSeq(s, 1, m.from - 1) \o SubSeq(s, m.to + 1, Len(s))

\* lines 101-105 of structured_json_response: trim, leading fence, trailing fence
StripFences(result) == RemoveTrailingFence(RemoveLeadingFence(Strip(result)))

(***************************************************************************)
(* Python values. Every value is a record of one shape, so that any two    *)
(* can be compared: t is the type, n an integer payload, s a text payload, *)
(* kids the elements of a list or the members of a dict in insertion order.*)
(***************************************************************************)
Val(t, n, s, kids) == [t |-> t, n |-> n, s |-> s, kids |-> kids]
PyNone == Val("null", 0, <<>>, <<>>)
PyBool(b) == Val(IF b THEN "true" ELSE "false", 0, <<>>, <<>>)
PyNum(n) == Val("num", n, <<>>, <<>>)
PyStr(s) == Val("str", 0, s, <<>>)
PyList(items) == Val("list", 0, <<>>, items)
Member(key, v) == Val("member", 0, key, <<v>>)
PyDict(members) == Val("dict", 0, <<>>, members)

\* d[key] = v on a dict's members: an existing key keeps its place
Put(members, key, v) ==
    IF \E k \in 1..Len(members) : members[k].s = key
    THEN [k \in 1..Len(members) |->
             IF members[k].s = key THEN Member(key, v) ELSE members[k]]
    ELSE Append(members, Member(key, v))

Keys(d) == {d.kids[k].s : k \in 1..Len(d.kids)}
Get(d, key) == (CHOOSE m \in {d.kids[k] : k \in 1..Len(d.kids)} : m.s = key).kids[1]

(***************************************************************************)
(* json.loads on the characters the model's texts are made of: objects,    *)
(* arrays, strings without escapes, unsigned integers, null, true, false.  *)
(***************************************************************************)
Fail == [ok |-> FALSE, val |-> PyNone, pos |-> 0]
Ok(v, p) == [ok |-> TRUE, val |-> v, pos |-> p]

DigitVal(c) ==
    CASE c = "0" -> 0 [] c = "1" -> 1 [] c = "2" -> 2 [] c = "3" -> 3
      [] c = "4" -> 4 [] c = "5" -> 5 [] c = "6" -> 6 [] c = "7" -> 7
      [] c = "8" -> 8 [] c = "9" -> 9

RECURSIVE DigitsToInt(_)
DigitsToInt(ds) ==
    IF ds = <<>> THEN 0
    ELSE 10 * DigitsToInt(SubSeq(ds, 1, Len(ds) - 1)) + DigitVal(ds[Len(ds)])

SkipWs(s, i) ==
    LET rest == {k \in i..Len(s) : s[k] \notin JsonWhitespace}
    IN  IF rest = {} THEN Len(s) + 1 ELSE Min(rest)

\* s[i] is the opening quote
ScanString(s, i) ==
    LET closes == {k \in (i + 1)..Len(s) : s[k] = QUOTE}
    IN  IF closes = {} THEN Fail
        ELSE LET k == Min(closes)
                 body == SubSeq(s, i + 1, k - 1)
             IN  IF \E m \in 1..Len(body) : body[m] \in ControlChars \cup {"\\"}
                 THEN Fail
                 ELSE Ok(PyStr(body), k + 1)

\* s[i] is a digit
ScanNumber(s, i) ==
    IF s[i] = "0" THEN Ok(PyNum(0), i + 1)
    ELSE LET stop == {k \in i..Len(s) : s[k] \notin Digits}
             e == IF stop = {} THEN Len(s) + 1 ELSE Min(stop)
         IN  Ok(PyNum(DigitsToInt(SubSeq(s, i, e - 1))), e)

RECURSIVE ScanValue(_, _), ScanElements(_, _, _), ScanMembers(_, _, _)

ScanValue(s, i) ==
    IF i > Len(s) THEN Fail
    ELSE CASE s[i] = QUOTE -> ScanString(s, i)
           [] s[i] = "{" ->
                LET j == SkipWs(s, i + 1)
                IN  IF j <= Len(s) /\ s[j] = "}" THEN Ok(PyDict(<<>>), j + 1)
                    ELSE ScanMembers(s, j, <<>>)
           [] s[i] = "[" ->
                LET j == SkipWs(s, i + 1)
                IN  IF j <= Len(s) /\ s[j] = "]" THEN Ok(PyList(<<>>), j + 1)
                    ELSE ScanElements(s, j, <<>>)
           [] s[i] \in Digits -> ScanNumber(s, i)
           [] MatchAt(s, i, <<"n", "u", "l", "l">>) -> Ok(PyNone, i + 4)
           [] MatchAt(s, i, <<"t", "r", "u", "e">>) -> Ok(PyBool(TRUE), i + 4)
           [] MatchAt(s, i, <<"f", "a", "l", "s", "e">>) -> Ok(PyBool(FALSE), i + 5)
           [] OTHER -> Fail

\* a value is expected at i; acc holds the elements read so far
ScanElements(s, i, acc) ==
    LET v == ScanValue(s, i)
    IN  IF ~v.ok THEN Fail
        ELSE LET d == SkipWs(s, v.pos)
                 acc2 == Append(acc, v.val)
             IN  IF d > Len(s) THEN Fail
                 ELSE IF s[d] = "]" THEN Ok(PyList(acc2), d + 1)
                 ELSE IF s[d] = "," THEN ScanElements(s, SkipWs(s, d + 1), acc2)
                 ELSE Fail

\* a key is expected at i; acc holds the members read so far
ScanMembers(s, i, acc) ==
    IF i > Len(s) \/ s[i] # QUOTE THEN Fail
    ELSE LET k == ScanString(s, i)
         IN  IF ~k.ok THEN Fail
             ELSE LET c == SkipWs(s, k.pos)
                  IN  IF c > Len(s) \/ s[c] # ":" THEN Fail
                      ELSE LET v == ScanValue(s, SkipWs(s, c + 1))
                           IN  IF ~v.ok THEN Fail
                               ELSE LET d == SkipWs(s, v.pos)
                                        acc2 == Put(acc, k.val.s, v.val)
                                    IN  IF d > Len(s) THEN Fail
                                        ELSE IF s[d] = "}" THEN Ok(PyDict(acc2), d + 1)
                                        ELSE IF s[d] = ","
                                             THEN ScanMembers(s, SkipWs(s, d + 1), acc2)
                                        ELSE Fail

\* json.loads(s): ok = FALSE stands for json.JSONDecodeError
JsonLoads(s) ==
    LET r == ScanValue(s, SkipWs(s, 1))
    IN  IF r.ok /\ SkipWs(s, r.pos) = Len(s) + 1 THEN r ELSE Fail


(***************************************************************************)
(* The inputs of a run.                                                    *)
(***************************************************************************)
Google == <<"g", "o", "o", "g", "l", "e">>
OpenAi == <<"o", "p", "e", "n", "a", "i">>
DEFAULT_MODEL_GOOGLE ==
    <<"g", "e", "m", "i", "n", "i", "-", "2", ".", "0", "-", "f", "l", "a", "s", "h">>
DEFAULT_MODEL_OPENAI ==
    <<"g", "p", "t", "-", "3", ".", "5", "-", "t", "u", "r", "b", "o">>

\* an environment variable: unset, or set to a text (which may be empty)
Unset == [set |-> FALSE, val |-> <<>>]
SetTo(v) == [set |-> TRUE, val |-> v]

ProviderSettings ==
    {Unset, SetTo(Google), SetTo(<<"G", "O", "O", "G", "L", "E">>), SetTo(OpenAi),
     SetTo(<<"O", "p", "e", "n", "A", "I">>), SetTo(<<"a", "z", "u", "r", "e">>),
     SetTo(<<>>)}
ApiKeySettings == {Unset, SetTo(<<>>), SetTo(<<"k">>)}
ModelSettings == {Unset, SetTo(<<>>), SetTo(<<"m", "y", "-", "m", "o", "d", "e", "l">>)}

\* the pieces a provider's reply is made of
JsonAnswer == <<"{", "\"", "a", "n", "s", "w", "e", "r", "\"", ":", "\"", "x", "\"", "}">>
JsonAnswerNum == <<"{", "\"", "a", "n", "s", "w", "e", "r", "\"", ":", "1", "}">>
JsonList == <<"[", "1", "]">>
Pieces ==
    {Fence, Fence \o TagJson, Fence \o TagJson \o <<"\n">>,
     Fence \o <<"J", "S", "O", "N", "\n">>, <<"\n">> \o Fence, <<BT>>, <<" ">>,
     JsonAnswer, <<"1">>, <<"x">>}

\* the texts made of at most n pieces
RECURSIVE TextsUpTo(_)
TextsUpTo(n) ==
    IF n = 0 THEN {<<>>}
    ELSE LET shorter == TextsUpTo(n - 1)
         IN  shorter \cup {t \o p : t \in shorter, p \in Pieces}

\* what the provider does with one request: a text, a response that carries
\* no text (resp.text is None), or a failure of the call
TextReply(t) == [kind |-> "text", text |-> t, error |-> ""]
NoTextReply == [kind |-> "notext", text |-> <<>>, error |-> "AttributeError"]
ErrorReply(e) == [kind |-> "error", text |-> <<>>, error |-> e]
NoReply == [kind |-> "none", text |-> <<>>, error |-> ""]
ProviderErrors == {"TimeoutError", "PermissionDenied"}
Failures == {NoTextReply} \cup {ErrorReply(e) : e \in ProviderErrors}
Replies(texts) == {TextReply(t) : t \in texts} \cup Failures
\* the replies the whole module is run with
PlainTexts ==
    {<<>>, <<" ", "P", "a", "r", "i", "s", "\n">>, JsonAnswer, JsonAnswerNum, JsonList,
     Fence \o TagJson \o <<"\n">> \o JsonAnswer \o <<"\n">> \o Fence}

Queries == {<<"X", "?">>, <<"W", "h", "a", "t", "?">>}
ExampleSet ==
    {[question |-> <<"Y", "?">>, answer |-> <<"Z">>],
     [question |-> <<"Q", ":">>, answer |-> <<"\n", "A", ":">>]}
RECURSIVE SeqsUpTo(_, _)
SeqsUpTo(S, n) ==
    IF n = 0 THEN {<<>>}
    ELSE LET shorter == SeqsUpTo(S, n - 1)
         IN  shorter \cup {Append(q, x) : q \in shorter, x \in S}
Contexts == {<<"C">>, <<>>}
FunctionNames == {"add", "multiply", "divide", "Add", ""}
Operands == (0 - MaxOperand)..MaxOperand

(***************************************************************************)
(* State.                                                                  *)
(***************************************************************************)
VARIABLES
    pc,        \* "startup": the module has not run; "ready": it has; "failed": it raised
    env,       \* the process environment after load_dotenv()
    globals,   \* the module's PROVIDER, API_KEY and MODEL
    clients,   \* the provider clients constructed
    startupError, \* the ValueError the module raised, if any
    requests,  \* the number of requests sent to a provider so far
    call       \* the last call of one of the module's functions and its outcome

vars == <<pc, env, globals, clients, startupError, requests, call>>

NoCall ==
    [op |-> "none", prompt |-> <<>>, requests |-> 0, client |-> "none",
     model |-> <<>>, reply |-> NoReply, text |-> <<>>, clean |-> <<>>,
     status |-> "none", exc |-> "", result |-> PyNone, logs |-> <<>>,
     fname |-> "", args |-> <<>>, invoked |-> <<>>,
     query |-> <<>>, examples |-> <<>>, context |-> <<>>]

NoError == [msg |-> "", arg |-> <<>>]

(***************************************************************************)
(* str.lower() on the letters of the alphabet.                             *)
(***************************************************************************)
UpperLetters ==
    <<"A", "B", "C", "D", "E", "F", "G", "H", "I", "J", "K", "L", "M",
      "N", "O", "P", "Q", "R", "S", "T", "U", "V", "W", "X", "Y", "Z">>
LowerLetters ==
    <<"a", "b", "c", "d", "e", "f", "g", "h", "i", "j", "k", "l", "m",
      "n", "o", "p", "q", "r", "s", "t", "u", "v", "w", "x", "y", "z">>
LowerChar(c) ==
    IF \E k \in 1..26 : UpperLetters[k] = c
    THEN LowerLetters[CHOOSE k \in 1..26 : UpperLetters[k] = c]
    ELSE c
Lower(s) == [k \in 1..Len(s) |-> LowerChar(s[k])]

\* os.getenv(name, default) in environment e
GetEnv(e, name, default) == IF e[name].set THEN e[name] ELSE default
\* "v is not None", where the code tests the truth of v
IsNotNone(v) == v.set

\* bool(v) of an Optional[str]
Truthy(v) == v.set /\ v.val # <<>>

(***************************************************************************)
(* Module start-up, lines 12-43.                                           *)
(***************************************************************************)
Init ==
    /\ pc = "startup"
    /\ env \in [PROVIDER : ProviderSettings, API_KEY : ApiKeySettings,
                MODEL : ModelSettings]
    /\ globals = [PROVIDER |-> <<>>, API_KEY |-> Unset, MODEL |-> <<>>]
    /\ clients = {}
    /\ startupError = NoError
    /\ requests = 0
    /\ call = NoCall

\* line 14
ProviderOf(e) == Lower(GetEnv(e, "PROVIDER", SetTo(Google)).val)
\* lines 19-21
ModelOf(e) ==
    IF Truthy(GetEnv(e, "MODEL", Unset)) THEN e.MODEL.val
    ELSE IF ProviderOf(e) = Google THEN DEFAULT_MODEL_GOOGLE
    ELSE DEFAULT_MODEL_OPENAI

Startup ==
    /\ pc = "startup"
    /\ globals' = [PROVIDER |-> ProviderOf(env), API_KEY |-> GetEnv(env, "API_KEY", Unset),
                   MODEL |-> ModelOf(env)]
    /\ IF ~Truthy(GetEnv(env, "API_KEY", Unset))
       THEN /\ pc' = "failed"
            /\ startupError' = [msg |-> "Missing API_KEY environment variable.",
                                arg |-> <<>>]
            /\ clients' = clients
       ELSE IF ProviderOf(env) = Google
       THEN /\ pc' = "ready"
            /\ clients' = {"google_client"}
            /\ startupError' = startupError
       ELSE IF ProviderOf(env) = OpenAi
       THEN /\ pc' = "ready"
            /\ clients' = {"openai_client"}
            /\ startupError' = startupError
       ELSE /\ pc' = "failed"
            /\ startupError' = [msg |-> "Unsupported provider: ",
                                arg |-> ProviderOf(env)]
            /\ clients' = clients
    /\ UNCHANGED <<env, requests, call>>

(***************************************************************************)
(* generate_response(prompt), lines 49-73, given what the provider does    *)
(* with the request: one request to the client PROVIDER selects; the text, *)
(* stripped, is returned; an exception is logged and raised again.         *)
(***************************************************************************)
\* generate_response with one more attempt after a failure
GenerateResponseRetry(prompt, reply) ==
    LET google == globals.PROVIDER = Google
        client == IF google THEN "google_client" ELSE "openai_client"
        label == IF google THEN "Google Gen AI error: " ELSE "OpenAI error: "
    IN  IF reply.kind = "text"
        THEN [status |-> "returned", text |-> Strip(reply.text), exc |-> "",
              requests |-> 1, client |-> client, logs |-> <<>>]
        ELSE [status |-> "raised", text |-> <<>>, exc |-> reply.error,
              requests |-> 2, client |-> client,
              logs |-> <<[msg |-> label, arg |-> <<reply.error>>],
                         [msg |-> label, arg |-> <<reply.error>>]>>]

GenerateResponse(prompt, reply) ==
    LET google == globals.PROVIDER = Google
        client == IF google THEN "google_client" ELSE "openai_client"
        label == IF google THEN "Google Gen AI error: " ELSE "OpenAI error: "
    IN  IF reply.kind = "text"
        THEN [status |-> "returned", text |-> Strip(reply.text), exc |-> "",
              requests |-> 1, client |-> client, logs |-> <<>>]
        ELSE [status |-> "raised", text |-> <<>>, exc |-> reply.error,
              requests |-> 1, client |-> client,
              logs |-> <<[msg |-> label, arg |-> <<reply.error>>]>>]

\* the record of a call that went through generate_response
Called(op, prompt, reply, g) ==
    [NoCall EXCEPT !.op = op, !.prompt = prompt, !.reply = reply,
                   !.requests = g.requests, !.client = g.client,
                   !.model = globals.MODEL, !.text = g.text,
                   !.status = g.status, !.exc = g.exc, !.logs = g.logs]

(***************************************************************************)
(* few_shot_prompt, lines 79-87.                                           *)
(***************************************************************************)
RECURSIVE FewShotLoopNoNewline(_, _)
\* the loop without the newline that ends an example
FewShotLoopNoNewline(prompt, examples) ==
    IF examples = <<>> THEN prompt
    ELSE LET ex == Head(examples)
         IN  FewShotLoopNoNewline(prompt \o <<"Q", ":", " ">> \o ex.question
                                         \o <<"\n", "A", ":", " ">> \o ex.answer,
                                  Tail(examples))

RECURSIVE FewShotLoop(_, _)
\* lines 84-85: the loop over the examples, prompt being the text so far
FewShotLoop(prompt, examples) ==
    IF examples = <<>> THEN prompt
    ELSE LET ex == Head(examples)
         IN  FewShotLoop(prompt \o <<"Q", ":", " ">> \o ex.question
                                \o <<"\n", "A", ":", " ">> \o ex.answer \o <<"\n">>,
                         Tail(examples))

FewShotText(query, examples) ==
    FewShotLoop(<<>>, examples) \o <<"Q", ":", " ">> \o query \o <<"\n", "A", ":">>

FewShotPrompt ==
    /\ pc = "ready"
    /\ call.op = "none"
    /\ requests < MaxCalls
    /\ \E query \in Queries, examples \in SeqsUpTo(ExampleSet, MaxExamples),
          reply \in Replies(PlainTexts) :
          LET prompt == FewShotText(query, examples)
              g == GenerateResponse(prompt, reply)
              c == [Called("few_shot_prompt", prompt, reply, g)
                       EXCEPT !.query = query, !.examples = examples]
          IN  /\ call' = IF g.status = "raised" THEN c
                         ELSE [c EXCEPT !.result = PyStr(g.text)]
              /\ requests' = requests + g.requests
    /\ UNCHANGED <<pc, env, globals, clients, startupError>>

(***************************************************************************)
(* structured_json_response, lines 93-110.                                 *)
(***************************************************************************)
StructuredText(query) ==
    <<"A", "n", "s", "w", "e", "r", " ", "t", "h", "e", " ", "f", "o", "l", "l",
      "o", "w", "i", "n", "g", " ", "q", "u", "e", "s", "t", "i", "o", "n", " ",
      "i", "n", " ", "J", "S", "O", "N", " ", "f", "o", "r", "m", "a", "t", " ">>
    \o <<"'", "{", "\"", "a", "n", "s", "w", "e", "r", "\"", ":", " ", "\"", "Y",
         "o", "u", "r", " ", "a", "n", "s", "w", "e", "r", " ", "h", "e", "r", "e",
         "\"", "}", "'", ".", " ">>
    \o <<"Q", "u", "e", "s", "t", "i", "o", "n", ":", " ">> \o query

ErrorKey == <<"e", "r", "r", "o", "r">>
RawResponseKey == <<"r", "a", "w", "_", "r", "e", "s", "p", "o", "n", "s", "e">>
AnswerKey == <<"a", "n", "s", "w", "e", "r">>
FailedToParse ==
    <<"F", "a", "i", "l", "e", "d", " ", "t", "o", " ", "p", "a", "r", "s", "e",
      " ", "J", "S", "O", "N">>

\* the dict with the cleaned text in place of the text received
ParseFailureOfClean(result) ==
    PyDict(<<Member(ErrorKey, PyStr(FailedToParse)),
             Member(RawResponseKey, PyStr(StripFences(result)))>>)

\* line 110: the dict returned when json.loads raises
ParseFailure(result) ==
    PyDict(<<Member(ErrorKey, PyStr(FailedToParse)),
             Member(RawResponseKey, PyStr(result))>>)

\* lines 101-110 on the text generate_response returned
Normalize(result) ==
    LET clean == StripFences(result)
        parsed == JsonLoads(clean)
    IN  IF parsed.ok
        THEN [clean |-> clean, result |-> parsed.val, logs |-> <<>>]
        ELSE [clean |-> clean, result |-> ParseFailure(result),
              logs |-> <<[msg |-> "JSON parse error: ", arg |-> clean]>>]

StructuredCall(texts) ==
    /\ pc = "ready"
    /\ call.op = "none"
    /\ requests < MaxCalls
    /\ \E query \in Queries, reply \in Replies(texts) :
          LET prompt == StructuredText(query)
              g == GenerateResponse(prompt, reply)
              c == [Called("structured_json_response", prompt, reply, g)
                       EXCEPT !.query = query]
              n == Normalize(g.text)
          IN  /\ call' = IF g.status = "raised" THEN c
                         ELSE [c EXCEPT !.clean = n.clean, !.result = n.result,
                                        !.logs = c.logs \o n.logs]
              /\ requests' = requests + g.requests
    /\ UNCHANGED <<pc, env, globals, clients, startupError>>

\* the call, with the replies the other prompt patterns are run with
StructuredJsonResponse == StructuredCall(PlainTexts)

\* the call, with every reply made of at most MaxPieces pieces
StructuredJsonResponseOnTexts == StructuredCall(TextsUpTo(MaxPieces))

(***************************************************************************)
(* retrieval_augmented_generation, lines 116-121.                          *)
(***************************************************************************)
RagText(context, question) ==
    <<"C", "o", "n", "t", "e", "x", "t", ":", " ">> \o context
    \o <<"\n", "Q", "u", "e", "s", "t", "i", "o", "n", ":", " ">> \o question
    \o <<"\n", "A", "n", "s", "w", "e", "r", ":">>

RetrievalAugmentedGeneration ==
    /\ pc = "ready"
    /\ call.op = "none"
    /\ requests < MaxCalls
    /\ \E context \in Contexts, question \in Queries, reply \in Replies(PlainTexts) :
          LET prompt == RagText(context, question)
              g == GenerateResponse(prompt, reply)
              c == [Called("retrieval_augmented_generation", prompt, reply, g)
                       EXCEPT !.query = question, !.context = context]
          IN  /\ call' = IF g.status = "raised" THEN c
                         ELSE [c EXCEPT !.result = PyStr(g.text)]
              /\ requests' = requests + g.requests
    /\ UNCHANGED <<pc, env, globals, clients, startupError>>

(***************************************************************************)
(* Calculator and function_call, lines 127-146.                            *)
(***************************************************************************)
CalculatorAdd(a, b) == a + b
\* multiply with the body of add
CalculatorMultiplyAsAdd(a, b) == a + b
CalculatorMultiply(a, b) == a * b

\* line 143: the keys of the functions dict
Supported == {"add", "multiply"}

\* lines 143-146: the outcome of function_call(name, *args)
Dispatch(name, args) ==
    IF name \notin Supported
    THEN [status |-> "raised", exc |-> "ValueError", result |-> PyNone,
          invoked |-> <<>>]
    ELSE IF Len(args) # 2
    THEN [status |-> "raised", exc |-> "TypeError", result |-> PyNone,
          invoked |-> <<>>]
    ELSE [status |-> "returned", exc |-> "",
          result |-> PyNum(IF name = "add" THEN CalculatorAdd(args[1], args[2])
                           ELSE CalculatorMultiply(args[1], args[2])),
          invoked |-> <<name>>]

ArgLists == UNION {[1..k -> Operands] : k \in {1, 2, 3}}

FunctionCall ==
    /\ pc = "ready"
    /\ call.op = "none"
    /\ \E name \in FunctionNames, args \in ArgLists :
          LET d == Dispatch(name, args)
          IN  call' = [NoCall EXCEPT !.op = "function_call", !.fname = name,
                                     !.args = args, !.status = d.status,
                                     !.exc = d.exc, !.result = d.result,
                                     !.invoked = d.invoked]
    /\ UNCHANGED <<pc, env, globals, clients, startupError, requests>>

(***************************************************************************)
(* main, lines 152-169: the caller prints what a call returned before it   *)
(* makes the next one; an exception a call raised ends the run.            *)
(***************************************************************************)
MainPrint ==
    /\ pc = "ready"
    /\ call.status = "returned"
    /\ call' = NoCall
    /\ UNCHANGED <<pc, env, globals, clients, startupError, requests>>

(***************************************************************************)
(* Specifications.                                                         *)
(***************************************************************************)
Next ==
    \/ Startup
    \/ MainPrint
    \/ FewShotPrompt
    \/ StructuredJsonResponse
    \/ RetrievalAugmentedGeneration
    \/ FunctionCall

\* the whole module, from every environment
Spec == Init /\ [][Next]_vars

\* the module started with a credential and the default provider
InitConfigured ==
    /\ Init
    /\ env = [PROVIDER |-> Unset, API_KEY |-> SetTo(<<"k">>), MODEL |-> Unset]

NextNormalizer ==
    \/ Startup
    \/ MainPrint
    \/ StructuredJsonResponseOnTexts

\* structured_json_response on every reply of the bounded language
SpecNormalizer == InitConfigured /\ [][NextNormalizer]_vars

(***************************************************************************)
(* Properties.                                                             *)
(***************************************************************************)
\* the last call is a structured_json_response call the provider answered with a text
Answered == call.op = "structured_json_response" /\ call.reply.kind = "text"

\* the StructuredAnswer shapes of the data model
IsAnswerShape(v) ==
    v.t = "dict" /\ Keys(v) = {AnswerKey} /\ Get(v, AnswerKey).t = "str"
IsErrorShape(v) ==
    /\ v.t = "dict"
    /\ Keys(v) = {ErrorKey, RawResponseKey}
    /\ Get(v, ErrorKey).t = "str"
    /\ Get(v, RawResponseKey).t = "str"

\* {error: "Failed to parse JSON", raw_response: t}
ErrorResult(t) ==
    PyDict(<<Member(<<"e", "r", "r", "o", "r">>,
                    PyStr(<<"F", "a", "i", "l", "e", "d", " ", "t", "o", " ", "p", "a",
                            "r", "s", "e", " ", "J", "S", "O", "N">>)),
             Member(<<"r", "a", "w", "_", "r", "e", "s", "p", "o", "n", "s", "e">>,
                    PyStr(t))>>)

\* t is open, then the text inner, then close
Wraps(t, open, close) ==
    Len(t) >= Len(open) + Len(close) /\ StartsWith(t, open) /\ EndsWith(t, close)
Inner(t, open, close) == SubSeq(t, Len(open) + 1, Len(t) - Len(close))

\* C1: a reply that is well-formed JSON, bare or between an untagged or a
\* json-tagged opening fence and a closing fence, makes structured_json_response
\* return the value json.loads gives for the JSON text itself, with nothing
\* logged, and never the dict of the parse failure.
C1_FencedJsonIsParsed ==
    Answered =>
        \A open \in {<<>>, Fence, Fence \o TagJson} :
            LET t == Strip(call.reply.text)
                close == IF open = <<>> THEN <<>> ELSE Fence
                inner == Inner(t, open, close)
            IN  (Wraps(t, open, close) /\ JsonLoads(inner).ok) =>
                    /\ call.status = "returned"
                    /\ call.result = JsonLoads(inner).val
                    /\ call.result # ErrorResult(call.text)
                    /\ call.logs = <<>>

\* a reply in a json-tagged fence, on lines of its own, was parsed into the answer
C1_Witness ==
    /\ Answered
    /\ Wraps(Strip(call.reply.text), Fence \o TagJson \o <<"\n">>, <<"\n">> \o Fence)
    /\ call.result = PyDict(<<Member(AnswerKey, PyStr(<<"x">>))>>)

\* C2 as claimed: a reply that is not JSON once trimmed and unfenced makes the
\* call return {error, raw_response} with raw_response the text the provider
\* returned, untrimmed.
C2_RawResponseIsProviderText ==
    (Answered /\ ~JsonLoads(StripFences(call.reply.text)).ok) =>
        /\ call.status = "returned"
        /\ call.result = ErrorResult(call.reply.text)

\* C2 as amended: a reply that is not JSON once trimmed and unfenced makes the
\* call raise nothing, log the parse error once and return {error, raw_response}
\* with raw_response the provider's text without its surrounding whitespace
\* (generate_response strips it), the fence markers still in it.
C2_RawResponseIsStrippedText ==
    (Answered /\ ~JsonLoads(StripFences(call.reply.text)).ok) =>
        /\ call.status = "returned"
        /\ call.exc = ""
        /\ call.result = ErrorResult(Strip(call.reply.text))
        /\ Len(call.logs) = 1
        /\ call.logs[1].msg = "JSON parse error: "

\* a fenced reply with whitespace around it was reported with its fence and
\* without the whitespace
C2_Witness ==
    /\ Answered
    /\ call.reply.text # Strip(call.reply.text)
    /\ StartsWith(Strip(call.reply.text), Fence)
    /\ call.clean # Strip(call.reply.text)
    /\ call.result = ErrorResult(Strip(call.reply.text))

\* C3: every value structured_json_response returns is {answer: string} or
\* {error: string, raw_response: string}.
C3_TwoShapes ==
    (call.op = "structured_json_response" /\ call.status = "returned") =>
        IsAnswerShape(call.result) \/ IsErrorShape(call.result)

\* C4 as claimed: the strip step applied to its own output changes nothing.
C4_StripIsIdempotent ==
    Answered => StripFences(call.clean) = call.clean

\* C4 as amended: the strip step applied to its own output changes nothing
\* exactly when that output neither begins nor ends with a fence; an output
\* that still carries a fence at an end loses it on the next application.
C4_StripIsIdempotentUnlessFenced ==
    Answered =>
        ((StripFences(call.clean) = call.clean)
            <=> (~StartsWith(call.clean, Fence) /\ ~EndsWith(call.clean, Fence)))

\* a fence was removed and the text left is a fixed point of the strip step
C4_Witness ==
    /\ Answered
    /\ call.clean # <<>>
    /\ call.clean # Strip(call.reply.text)
    /\ StripFences(call.clean) = call.clean

\* the text after an opening fence and its four-letter tag, less a closing fence
AfterTag(t) ==
    LET rest == SubSeq(t, 8, Len(t))
    IN  IF EndsWith(rest, Fence) THEN SubSeq(rest, 1, Len(rest) - 3) ELSE rest
\* t opens with a fence tagged json in some letter case
TaggedAnyCase(t) ==
    Len(t) >= 7 /\ StartsWith(t, Fence) /\ Lower(SubSeq(t, 4, 7)) = TagJson

\* C5 as claimed: after an opening fence tagged json in any letter case,
\* well-formed JSON is parsed and returned.
C5_TagAnyCase ==
    Answered =>
        LET t == Strip(call.reply.text)
        IN  (TaggedAnyCase(t) /\ JsonLoads(AfterTag(t)).ok) =>
                call.result = JsonLoads(AfterTag(t)).val

\* C5 as amended: the tag is matched in lower case only. After an opening fence
\* tagged json in lower case, well-formed JSON is parsed and returned; with the
\* tag in any other letter case only the three backticks are removed, the tag
\* stays in the text and the call returns the dict of the parse failure.
C5_TagLowerCaseOnly ==
    Answered =>
        LET t == Strip(call.reply.text)
        IN  /\ (TaggedAnyCase(t) /\ SubSeq(t, 4, 7) = TagJson
                    /\ JsonLoads(AfterTag(t)).ok) =>
                   call.result = JsonLoads(AfterTag(t)).val
            /\ (TaggedAnyCase(t) /\ SubSeq(t, 4, 7) # TagJson) =>
                   /\ StartsWith(call.clean, SubSeq(t, 4, 7))
                   /\ call.result = ErrorResult(t)

\* well-formed JSON after an upper-case tag came back as a parse failure
C5_Witness ==
    /\ Answered
    /\ TaggedAnyCase(Strip(call.reply.text))
    /\ SubSeq(Strip(call.reply.text), 4, 7) # TagJson
    /\ JsonLoads(AfterTag(Strip(call.reply.text))).ok
    /\ IsErrorShape(call.result)

\* C6: function_call("add", a, b) returns a + b, function_call("multiply", a, b)
\* returns a * b, and any other name raises the unknown-operation error,
\* invoking no operation and returning nothing.
C6_Dispatch ==
    call.op = "function_call" =>
        /\ (call.fname = "add" /\ Len(call.args) = 2) =>
               /\ call.status = "returned"
               /\ call.result = PyNum(call.args[1] + call.args[2])
               /\ call.invoked = <<"add">>
        /\ (call.fname = "multiply" /\ Len(call.args) = 2) =>
               /\ call.status = "returned"
               /\ call.result = PyNum(call.args[1] * call.args[2])
               /\ call.invoked = <<"multiply">>
        /\ call.fname \notin {"add", "multiply"} =>
               /\ call.status = "raised"
               /\ call.exc = "ValueError"
               /\ call.invoked = <<>>
               /\ call.result = PyNone

\* multiply was called on two operands whose sum and product differ
C6_Witness ==
    /\ call.op = "function_call"
    /\ call.fname = "multiply"
    /\ Len(call.args) = 2
    /\ call.args[1] + call.args[2] # call.args[1] * call.args[2]
    /\ call.status = "returned"

\* the text of one example in a few-shot prompt
ExampleText(ex) ==
    <<"Q", ":", " ">> \o ex.question \o <<"\n", "A", ":", " ">> \o ex.answer \o <<"\n">>

\* C7: the prompt few_shot_prompt sends is the texts of the examples in the
\* order given, then "Q: <query>\nA:" and nothing after it; with no example it
\* is "Q: <query>\nA:" alone.
C7_FewShotPromptText ==
    call.op = "few_shot_prompt" =>
        /\ call.requests = 1
        /\ call.prompt =
               Concat([k \in 1..Len(call.examples) |-> ExampleText(call.examples[k])])
               \o <<"Q", ":", " ">> \o call.query \o <<"\n", "A", ":">>
        /\ call.examples = <<>> =>
               call.prompt = <<"Q", ":", " ">> \o call.query \o <<"\n", "A", ":">>

\* a prompt was sent for two different examples
C7_Witness ==
    /\ call.op = "few_shot_prompt"
    /\ Len(call.examples) = 2
    /\ call.examples[1] # call.examples[2]
    /\ call.status = "returned"

LlmOps == {"few_shot_prompt", "structured_json_response", "retrieval_augmented_generation"}

\* C8: a call that goes through generate_response makes exactly one request;
\* when the request fails the failure is logged once and raised to the caller
\* of few_shot_prompt, structured_json_response or
\* retrieval_augmented_generation, nothing is returned, and no second request
\* is made; the only failure returned as data is a JSON parse failure.
C8_OneRequestNoRecovery ==
    call.op \in LlmOps =>
        /\ call.requests = 1
        /\ call.reply.kind # "text" =>
               /\ call.status = "raised"
               /\ call.exc = call.reply.error
               /\ Len(call.logs) = 1
               /\ call.logs[1].arg = <<call.reply.error>>
               /\ call.result = PyNone
        /\ call.reply.kind = "text" => call.status = "returned"
        /\ (call.status = "returned" /\ IsErrorShape(call.result)) =>
               /\ call.op = "structured_json_response"
               /\ ~JsonLoads(StripFences(call.reply.text)).ok

\* the second request of a run failed inside structured_json_response
C8_Witness ==
    /\ call.op = "structured_json_response"
    /\ call.reply.kind = "error"
    /\ call.status = "raised"
    /\ requests = 2

\* the selector the module reads, and whether it is one the module supports
Selector == IF env.PROVIDER.set THEN env.PROVIDER.val ELSE Google
Unsupported == Lower(Selector) \notin {Google, OpenAi}
MissingCredential == ~env.API_KEY.set \/ env.API_KEY.val = <<>>

\* C9: once the module has run with the credential absent or empty, or with a
\* selector that is neither supported value, it has raised its configuration
\* error: no client was constructed, no request is ever sent and no function
\* of the module runs.
C9_ConfigurationErrorIsFatal ==
    (pc # "startup" /\ (MissingCredential \/ Unsupported)) =>
        /\ pc = "failed"
        /\ startupError # NoError
        /\ clients = {}
        /\ requests = 0
        /\ call = NoCall

\* the module raised for a selector it does not support, the credential given
C9_Witness ==
    /\ pc = "failed"
    /\ ~MissingCredential
    /\ Unsupported
    /\ startupError.msg = "Unsupported provider: "

\* p is nothing, or an opening fence with its optional tag and the whitespace after it
IsOpening(p) ==
    \/ p = <<>>
    \/ /\ StartsWith(p, Fence)
       /\ LET t == IF MatchAt(p, 4, TagJson) THEN 7 ELSE 3
          IN  \A k \in (t + 1)..Len(p) : p[k] \in PyWhitespace
\* q is nothing, or a closing fence with the whitespace before it
IsClosing(q) ==
    \/ q = <<>>
    \/ /\ EndsWith(q, Fence)
       /\ \A k \in 1..(Len(q) - 3) : q[k] \in PyWhitespace

\* C10: the strip step removes a fence only at the very start and at the very
\* end of the trimmed text: what is left is the trimmed text between an opening
\* at its start and a closing at its end, every character of it in place.
C10_FenceRemovalIsAnchored ==
    Answered =>
        LET t == Strip(call.reply.text)
        IN  \E i \in 0..Len(t) : \E j \in i..Len(t) :
                /\ call.clean = SubSeq(t, i + 1, j)
                /\ IsOpening(SubSeq(t, 1, i))
                /\ IsClosing(SubSeq(t, j + 1, Len(t)))

\* an opening fence was removed and a fence in the middle of the text was kept
C10_Witness ==
    /\ Answered
    /\ StartsWith(Strip(call.reply.text), Fence)
    /\ Len(call.clean) < Len(Strip(call.reply.text))
    /\ \E k \in 2..(Len(call.clean) - 3) : MatchAt(call.clean, k, Fence)

=============================================================================
